---- MODULE Spec2Model ----
(***************************************************************************)
(* The mediasoup Worker of node/src (class Worker): one child process, one *)
(* Channel, the two registries of dependent resources and the observer.    *)
(*                                                                         *)
(* Every handler of the class is an operator from a state record to the    *)
(* state record it leaves behind, so that a handler that calls another one *)
(* (the 'exit' handler calls close(), a 'died' listener may call close())  *)
(* is the composition of the two.  An action of the state machine is one   *)
(* event-loop callback, one public call up to its await, or one promise    *)
(* job (the rest of a call after its await), run to completion.            *)
(*                                                                         *)
(* Channel, Router and WebRtcServer are imported by the class and are      *)
(* modelled from their documented contract.                                *)
(***************************************************************************)
EXTENDS Integers, FiniteSets, Sequences, TLC

\* ---------------------------------------------------------------- bounds
\* Requests that may be written to the channel in one run.
MaxRequests == 2
\* Identifiers generateUUIDv4() may hand out in one run.
MaxResources == 2

\* ------------------------------------------------------ program constants
\* The exit code by which the worker binary rejects its settings.
WrongSettingsCode == 42
\* `code` of an 'exit' event when the process was ended by a signal (null).
NullCode == -1

\* `pid` of the child when spawn() could not start the process (undefined),
\* and the identifiers the operating system may hand out.
UndefinedPid == 0
Pids == {UndefinedPid, 1}

ExitCodes == {WrongSettingsCode, 1}
Signals == {"SIGTERM"}
\* The (code, signal) pairs an 'exit' event carries: one of the two is null.
ExitEvents ==
    [code : ExitCodes, signal : {"null"}] \cup [code : {NullCode}, signal : Signals]

\* appData as the creation calls tell it apart: absent, a record, a primitive
\* that is truthy (1, 'x', true) or falsy (0, '', false).
AppDatas == {"undefined", "object", "truthyPrimitive", "falsyPrimitive"}
Truthy(appData) == appData \in {"object", "truthyPrimitive"}
TypeofObject(appData) == appData = "object"

Methods ==
    {"WORKER_DUMP", "WORKER_GET_RESOURCE_USAGE", "WORKER_UPDATE_SETTINGS",
     "WORKER_CREATE_WEBRTCSERVER", "WORKER_CREATE_ROUTER",
     "WORKER_WEBRTCSERVER_CLOSE", "WORKER_CLOSE_ROUTER"}

ReqIds == 1..MaxRequests
ResIds == 1..MaxResources

WorkerEvents == {"@success", "@failure", "died"}
WorkerObserverEvents == {"close", "newwebrtcserver", "newrouter"}
AllEvents == WorkerEvents \cup WorkerObserverEvents

\* Failure details: what an Error handed to a listener carries.
NoDetail == [kind |-> "none", code |-> NullCode, signal |-> "null"]
WrongSettingsError == [kind |-> "TypeError: wrong settings", code |-> NullCode, signal |-> "null"]
CodeSignalError(code, signal) == [kind |-> "Error: [pid, code, signal]", code |-> code, signal |-> signal]
ChildProcessError == [kind |-> "child process error", code |-> NullCode, signal |-> "null"]

VARIABLES
    \* the constructor
    settings,        \* the WorkerSettings handed to the constructor
    env,             \* process.env, as far as the constructor reads it
    spawnArgs,       \* the constructor's `spawnArgs`
    spawned,         \* spawn() was called
    \* Worker
    pid,             \* #pid
    spawnDone,       \* the constructor's `spawnDone`
    child,           \* #child is set (TRUE) or undefined (FALSE)
    listeners,       \* the 'exit' and 'error' handlers are attached to the child
    closed,          \* #closed
    died,            \* #died
    webRtcServers,   \* #webRtcServers
    routers,         \* #routers
    \* Channel
    channelClosed,   \* the channel's closed flag
    sents,           \* the pending-request table (identifiers awaiting a response)
    nextId,          \* the request-identifier source
    requests,        \* every request written so far: method, resource, resolution
    resumes,         \* creation calls whose await was resolved and that wait to run on
    \* dependent resources
    resources,       \* Router / WebRtcServer objects by identifier
    nextUuid,        \* generateUUIDv4()
    \* the operating system's side
    proc,            \* the process: running, or how and when it ended
    runningSeen,     \* the once-listener of the readiness notification has run
    kills,           \* SIGTERM signals sent by kill()
    \* what listeners and callers observed
    emitted,         \* how often each event was emitted
    seen,            \* what a listener of each emitted event saw
    closeLog         \* each close() call: where from, on a closed Worker?, no effect?

vars ==
    <<settings, env, spawnArgs, spawned, pid, spawnDone, child, listeners, closed, died, webRtcServers, routers,
      channelClosed, sents, nextId, requests, resumes, resources, nextUuid,
      proc, runningSeen, kills, emitted, seen, closeLog>>

\* The current state as one record, and the assignment of a record to the
\* next state.
State ==
    [pid |-> pid, spawnDone |-> spawnDone, child |-> child, listeners |-> listeners,
     closed |-> closed, died |-> died, webRtcServers |-> webRtcServers,
     routers |-> routers, channelClosed |-> channelClosed, sents |-> sents,
     nextId |-> nextId, requests |-> requests, resumes |-> resumes,
     resources |-> resources,
     nextUuid |-> nextUuid, proc |-> proc, runningSeen |-> runningSeen,
     kills |-> kills, emitted |-> emitted, seen |-> seen, closeLog |-> closeLog]

Assign(s) ==
    /\ pid' = s.pid
    /\ spawnDone' = s.spawnDone
    /\ child' = s.child
    /\ listeners' = s.listeners
    /\ closed' = s.closed
    /\ died' = s.died
    /\ webRtcServers' = s.webRtcServers
    /\ routers' = s.routers
    /\ channelClosed' = s.channelClosed
    /\ sents' = s.sents
    /\ nextId' = s.nextId
    /\ requests' = s.requests
    /\ resumes' = s.resumes
    /\ resources' = s.resources
    /\ nextUuid' = s.nextUuid
    /\ proc' = s.proc
    /\ runningSeen' = s.runningSeen
    /\ kills' = s.kills
    /\ emitted' = s.emitted
    /\ seen' = s.seen
    /\ closeLog' = s.closeLog

\* A step of the constructed Worker: the constructor's locals stay.
Becomes(s) ==
    /\ Assign(s)
    /\ UNCHANGED <<settings, env, spawnArgs, spawned>>

NoRequest ==
    [method |-> "none", rid |-> 0, state |-> "unsent", resolutions |-> 0, by |-> 0]
NoResource == [kind |-> "none", closed |-> FALSE, teardowns |-> 0, workerClosedCalls |-> 0]

\* ------------------------------------------------------------- emitting
\* emit / safeEmit: the listeners run synchronously, in the state the emitter
\* is in at that line.  `rid` is the resource a creation event carries.
Snapshot(s, ev, detail, rid) ==
    [ev |-> ev, detail |-> detail, rid |-> rid, pid |-> s.pid,
     closed |-> s.closed, died |-> s.died,
     registriesEmpty |-> (s.routers = {} /\ s.webRtcServers = {}),
     noPending |-> (s.sents = {}),
     registered |-> (rid \in s.routers \cup s.webRtcServers)]

emit(s, ev, detail, rid) ==
    [s EXCEPT !.emitted[ev] = @ + 1,
              !.seen = @ \cup {Snapshot(s, ev, detail, rid)}]

\* -------------------------------------------------------------- Channel
\* request(): the identifier is taken from the identifier source, the request
\* is written to the process and its waiter stored in the pending table.
\* The caller tests channelClosed first: request() on a closed channel
\* throws and writes nothing.
channelRequest(s, method, rid) ==
    [s EXCEPT !.nextId = @ + 1,
              !.sents = @ \cup {s.nextId},
              !.requests[s.nextId] =
                  [method |-> method, rid |-> rid, state |-> "pending",
                   resolutions |-> 0, by |-> 0]]

\* The record of a request once its waiter was resolved: how, how often, and
\* by the response with which identifier (0: by the channel's close).
\* (The method is kept only while the request is pending.)
Resolved(request, how, by) ==
    [request EXCEPT !.method = "resolved", !.state = how,
                    !.resolutions = @ + 1, !.by = by]

\* A response read from the process: it resolves the waiter stored under its
\* own identifier and nothing else.  A response for an identifier that is
\* not pending (answered before, or failed by close()) is dropped.
channelProcessResponse(s, id, accepted) ==
    IF id \notin s.sents
    THEN s
    ELSE [s EXCEPT !.sents = @ \ {id},
                   !.requests[id] = Resolved(@, IF accepted THEN "accepted" ELSE "rejected", id)]

\* close(): every pending waiter is failed and the table is drained.
channelClose(s) ==
    IF s.channelClosed
    THEN s
    ELSE [s EXCEPT !.channelClosed = TRUE,
                   !.sents = {},
                   !.requests = [id \in ReqIds |->
                       IF id \in s.sents
                       THEN Resolved(@[id], "closed", 0)
                       ELSE @[id]]]

\* ------------------------------------------------- Router / WebRtcServer
\* workerClosed(): the owner-initiated close.  It tears the resource down
\* unless it is closed already, and does not talk to the process.
workerClosed(r) ==
    IF r.closed
    THEN [r EXCEPT !.workerClosedCalls = @ + 1]
    ELSE [r EXCEPT !.closed = TRUE, !.teardowns = @ + 1, !.workerClosedCalls = @ + 1]

\* for (const x of set) x.workerClosed()
workerClosedEach(s, set) ==
    [s EXCEPT !.resources = [r \in ResIds |->
        IF r \in set THEN workerClosed(@[r]) ELSE @[r]]]

\* -------------------------------------------------------- Worker.close()
\* Mutants of close(): without its guard; without closing the channel.
closeNoGuard(s) ==
    LET s1 == [s EXCEPT !.closed = TRUE]
        s2 == IF s1.child
              THEN [s1 EXCEPT !.listeners = FALSE, !.kills = @ + 1, !.child = FALSE]
              ELSE s1
        s3 == channelClose(s2)
        s4 == [workerClosedEach(s3, s3.routers) EXCEPT !.routers = {}]
        s5 == [workerClosedEach(s4, s4.webRtcServers) EXCEPT !.webRtcServers = {}]
    IN  emit(s5, "close", NoDetail, 0)

closeKeepsChannel(s) ==
    IF s.closed
    THEN s
    ELSE LET s1 == [s EXCEPT !.closed = TRUE]
             s2 == IF s1.child
                   THEN [s1 EXCEPT !.listeners = FALSE, !.kills = @ + 1, !.child = FALSE]
                   ELSE s1
             s4 == [workerClosedEach(s2, s2.routers) EXCEPT !.routers = {}]
             s5 == [workerClosedEach(s4, s4.webRtcServers) EXCEPT !.webRtcServers = {}]
         IN  emit(s5, "close", NoDetail, 0)

close(s) ==
    IF s.closed
    THEN s
    ELSE LET s1 == [s EXCEPT !.closed = TRUE]
             \* removeAllListeners('exit'), removeAllListeners('error'),
             \* the inert 'error' handler, kill('SIGTERM'), #child = undefined
             s2 == IF s1.child
                   THEN [s1 EXCEPT !.listeners = FALSE, !.kills = @ + 1, !.child = FALSE]
                   ELSE s1
             s3 == channelClose(s2)
             s4 == [workerClosedEach(s3, s3.routers) EXCEPT !.routers = {}]
             s5 == [workerClosedEach(s4, s4.webRtcServers) EXCEPT !.webRtcServers = {}]
         IN  emit(s5, "close", NoDetail, 0)

\* A close() call and the record of it: who called, whether the Worker was
\* closed already, and whether the call left every field as it was.
closeCall(s, from) ==
    LET t == close(s)
    IN  [t EXCEPT !.closeLog = @ \cup
            {[from |-> from, wasClosed |-> s.closed, nothingDone |-> (t = s)]}]

\* ---------------------------------------------------- Worker.workerDied()
\* `listenerCloses`: a listener of 'died' calls worker.close().
\* Mutants of workerDied(): #closed not set; without its guard; without the
\* cascade; without closing the channel; without the observer's 'close';
\* with 'died' emitted before the channel and the resources are closed.
workerDiedEmitsFirst(s, error, listenerCloses) ==
    IF s.closed
    THEN s
    ELSE LET s1 == [s EXCEPT !.closed = TRUE, !.died = TRUE]
             s2 == emit(s1, "died", error, 0)
             s3 == channelClose(s2)
             s4 == [workerClosedEach(s3, s3.routers) EXCEPT !.routers = {}]
             s5 == [workerClosedEach(s4, s4.webRtcServers) EXCEPT !.webRtcServers = {}]
             s6 == IF listenerCloses THEN closeCall(s5, "died listener") ELSE s5
         IN  emit(s6, "close", NoDetail, 0)

workerDiedNoCloseEvent(s, error, listenerCloses) ==
    IF s.closed
    THEN s
    ELSE LET s1 == [s EXCEPT !.closed = TRUE, !.died = TRUE]
             s2 == channelClose(s1)
             s3 == [workerClosedEach(s2, s2.routers) EXCEPT !.routers = {}]
             s4 == [workerClosedEach(s3, s3.webRtcServers) EXCEPT !.webRtcServers = {}]
             s5 == emit(s4, "died", error, 0)
         IN  IF listenerCloses THEN closeCall(s5, "died listener") ELSE s5

workerDiedKeepsOpen(s, error, listenerCloses) ==
    IF s.closed
    THEN s
    ELSE LET s1 == [s EXCEPT !.died = TRUE]
             s2 == channelClose(s1)
             s3 == [workerClosedEach(s2, s2.routers) EXCEPT !.routers = {}]
             s4 == [workerClosedEach(s3, s3.webRtcServers) EXCEPT !.webRtcServers = {}]
             s5 == emit(s4, "died", error, 0)
             s6 == IF listenerCloses THEN closeCall(s5, "died listener") ELSE s5
         IN  emit(s6, "close", NoDetail, 0)

workerDiedNoGuard(s, error, listenerCloses) ==
    LET s1 == [s EXCEPT !.closed = TRUE, !.died = TRUE]
        s2 == channelClose(s1)
        s3 == [workerClosedEach(s2, s2.routers) EXCEPT !.routers = {}]
        s4 == [workerClosedEach(s3, s3.webRtcServers) EXCEPT !.webRtcServers = {}]
        s5 == emit(s4, "died", error, 0)
        s6 == IF listenerCloses THEN closeCall(s5, "died listener") ELSE s5
    IN  emit(s6, "close", NoDetail, 0)

workerDiedKeepsResources(s, error, listenerCloses) ==
    IF s.closed
    THEN s
    ELSE LET s1 == [s EXCEPT !.closed = TRUE, !.died = TRUE]
             s2 == channelClose(s1)
             s5 == emit(s2, "died", error, 0)
             s6 == IF listenerCloses THEN closeCall(s5, "died listener") ELSE s5
         IN  emit(s6, "close", NoDetail, 0)

workerDiedKeepsChannel(s, error, listenerCloses) ==
    IF s.closed
    THEN s
    ELSE LET s1 == [s EXCEPT !.closed = TRUE, !.died = TRUE]
             s3 == [workerClosedEach(s1, s1.routers) EXCEPT !.routers = {}]
             s4 == [workerClosedEach(s3, s3.webRtcServers) EXCEPT !.webRtcServers = {}]
             s5 == emit(s4, "died", error, 0)
             s6 == IF listenerCloses THEN closeCall(s5, "died listener") ELSE s5
         IN  emit(s6, "close", NoDetail, 0)

workerDied(s, error, listenerCloses) ==
    IF s.closed
    THEN s
    ELSE LET s1 == [s EXCEPT !.closed = TRUE, !.died = TRUE]
             s2 == channelClose(s1)
             s3 == [workerClosedEach(s2, s2.routers) EXCEPT !.routers = {}]
             s4 == [workerClosedEach(s3, s3.webRtcServers) EXCEPT !.webRtcServers = {}]
             s5 == emit(s4, "died", error, 0)
             s6 == IF listenerCloses THEN closeCall(s5, "died listener") ELSE s5
         IN  emit(s6, "close", NoDetail, 0)

\* ------------------------------------------ the constructor's listeners
\* channel.once(String(pid), ...): the readiness notification.
\* Mutant: the listener without its spawnDone test.
onRunningNoGuard(s) ==
    emit([s EXCEPT !.spawnDone = TRUE], "@success", NoDetail, 0)

onRunning(s) ==
    IF ~s.spawnDone
    THEN emit([s EXCEPT !.spawnDone = TRUE], "@success", NoDetail, 0)
    ELSE s

\* child.on('exit', (code, signal) => ...)
\* Mutants of the 'exit' handler: every exit is a death; every exit is a
\* startup failure; code 42 is not told apart.
onExitAlwaysDeath(s, code, signal, listenerCloses) ==
    workerDied([s EXCEPT !.child = FALSE, !.spawnDone = TRUE],
               CodeSignalError(code, signal), listenerCloses)

onExitAlwaysFailure(s, code, signal, listenerCloses) ==
    LET s2 == [s EXCEPT !.child = FALSE, !.spawnDone = TRUE]
    IN  IF code = WrongSettingsCode
        THEN emit(closeCall(s2, "exit handler"), "@failure", WrongSettingsError, 0)
        ELSE emit(closeCall(s2, "exit handler"), "@failure",
                  CodeSignalError(code, signal), 0)

onExitNoSentinel(s, code, signal, listenerCloses) ==
    LET s1 == [s EXCEPT !.child = FALSE]
    IN  IF ~s1.spawnDone
        THEN LET s2 == [s1 EXCEPT !.spawnDone = TRUE]
             IN  emit(closeCall(s2, "exit handler"), "@failure",
                      CodeSignalError(code, signal), 0)
        ELSE workerDied(s1, CodeSignalError(code, signal), listenerCloses)

onExit(s, code, signal, listenerCloses) ==
    LET s1 == [s EXCEPT !.child = FALSE]
    IN  IF ~s1.spawnDone
        THEN LET s2 == [s1 EXCEPT !.spawnDone = TRUE]
             IN  IF code = WrongSettingsCode
                 THEN emit(closeCall(s2, "exit handler"), "@failure",
                           WrongSettingsError, 0)
                 ELSE emit(closeCall(s2, "exit handler"), "@failure",
                           CodeSignalError(code, signal), 0)
        ELSE workerDied(s1, CodeSignalError(code, signal), listenerCloses)

\* child.on('error', error => ...)
onError(s, listenerCloses) ==
    LET s1 == [s EXCEPT !.child = FALSE]
    IN  IF ~s1.spawnDone
        THEN LET s2 == [s1 EXCEPT !.spawnDone = TRUE]
             IN  emit(closeCall(s2, "error handler"), "@failure", ChildProcessError, 0)
        ELSE workerDied(s1, ChildProcessError, listenerCloses)

\* ------------------------------------------------------- public requests
\* A call left s untouched (t is the state it left): it wrote nothing to the
\* process, changed no registry and no resource and emitted nothing.
Untouched(s, t) ==
    /\ t.sents = s.sents
    /\ t.nextId = s.nextId
    /\ t.requests = s.requests
    /\ t.routers = s.routers
    /\ t.webRtcServers = s.webRtcServers
    /\ t.resources = s.resources
    /\ t.emitted = s.emitted
    /\ t.seen = s.seen

\* The errors a public request throws.
ChannelClosedError == "InvalidStateError: Channel closed"
AppDataTypeError == "TypeError: if given, appData must be an object"
CapabilitiesError == "error thrown by generateRouterRtpCapabilities"

\* A call made in state s: the state it leaves and how it returned ("sent":
\* suspended on its request; else the error it threw).
returns(s, t, result) ==
    [state |-> t, result |-> result]

\* await this.#channel.request(method [, body]): request() throws on a closed
\* channel, else the call suspends until its response or the channel's close.
awaitRequest(s0, s, method, rid) ==
    IF s.channelClosed
    THEN returns(s0, s, ChannelClosedError)
    ELSE returns(s0, channelRequest(s, method, rid), "sent")

dump(s) == awaitRequest(s, s, "WORKER_DUMP", 0)

getResourceUsage(s) == awaitRequest(s, s, "WORKER_GET_RESOURCE_USAGE", 0)

updateSettings(s) == awaitRequest(s, s, "WORKER_UPDATE_SETTINGS", 0)

createWebRtcServer(s, appData) ==
    IF Truthy(appData) /\ ~TypeofObject(appData)
    THEN returns(s, s, AppDataTypeError)
    ELSE LET webRtcServerId == s.nextUuid
             s1 == [s EXCEPT !.nextUuid = @ + 1]
         IN  awaitRequest(s, s1, "WORKER_CREATE_WEBRTCSERVER", webRtcServerId)

\* `capabilitiesOk`: ortc.generateRouterRtpCapabilities(mediaCodecs) returns
\* (TRUE) or throws (FALSE).
\* Mutant: the capabilities are generated after the identifier was drawn and
\* the request was written.
createRouterNegotiatesLate(s, appData, capabilitiesOk) ==
    IF Truthy(appData) /\ ~TypeofObject(appData)
    THEN returns(s, s, AppDataTypeError)
    ELSE LET routerId == s.nextUuid
             s1 == [s EXCEPT !.nextUuid = @ + 1]
             sent == awaitRequest(s, s1, "WORKER_CREATE_ROUTER", routerId)
         IN  IF ~capabilitiesOk
             THEN returns(s, sent.state, CapabilitiesError)
             ELSE sent

createRouter(s, appData, capabilitiesOk) ==
    IF Truthy(appData) /\ ~TypeofObject(appData)
    THEN returns(s, s, AppDataTypeError)
    ELSE IF ~capabilitiesOk
    THEN returns(s, s, CapabilitiesError)
    ELSE LET routerId == s.nextUuid
             s1 == [s EXCEPT !.nextUuid = @ + 1]
         IN  awaitRequest(s, s1, "WORKER_CREATE_ROUTER", routerId)

\* The rest of createWebRtcServer() once its request was accepted.
\* `listenerCloses`: a listener of the creation event calls worker.close().
createWebRtcServerResolved(s, webRtcServerId, listenerCloses) ==
    LET s1 == [s EXCEPT !.resources[webRtcServerId] =
                            [NoResource EXCEPT !.kind = "webRtcServer"],
                        !.webRtcServers = @ \cup {webRtcServerId}]
        s2 == emit(s1, "newwebrtcserver", NoDetail, webRtcServerId)
    IN  IF listenerCloses THEN closeCall(s2, "newwebrtcserver listener") ELSE s2

\* The rest of createRouter() once its request was accepted.
\* Mutant: 'newrouter' is emitted before the router is added to the set.
createRouterResolvedEmitsFirst(s, routerId, listenerCloses) ==
    LET s1 == emit(s, "newrouter", NoDetail, routerId)
        s2 == [s1 EXCEPT !.resources[routerId] = [NoResource EXCEPT !.kind = "router"],
                         !.routers = @ \cup {routerId}]
    IN  IF listenerCloses THEN closeCall(s2, "newrouter listener") ELSE s2

createRouterResolved(s, routerId, listenerCloses) ==
    LET s1 == [s EXCEPT !.resources[routerId] = [NoResource EXCEPT !.kind = "router"],
                        !.routers = @ \cup {routerId}]
        s2 == emit(s1, "newrouter", NoDetail, routerId)
    IN  IF listenerCloses THEN closeCall(s2, "newrouter listener") ELSE s2

\* A response arrives: the channel resolves its waiter.  The call that
\* awaited it does not run on at once: the rest of an async function after
\* its await is a promise job, queued when the awaited promise is resolved
\* and run, in the order of resolution, once the running callback returned.
\* (A rejected request throws out of its call, and the rest of the three
\* queries changes nothing of the Worker: only accepted creations are kept.)
onResponse(s, id, accepted) ==
    LET s1 == channelProcessResponse(s, id, accepted)
        request == s.requests[id]
    IN  IF /\ id \in s.sents
           /\ accepted
           /\ request.method \in {"WORKER_CREATE_WEBRTCSERVER", "WORKER_CREATE_ROUTER"}
        THEN [s1 EXCEPT !.resumes = Append(@, [method |-> request.method,
                                                rid |-> request.rid])]
        ELSE s1

\* The first queued creation call runs on after its await.
resume(s, listenerCloses) ==
    LET call == Head(s.resumes)
        s1 == [s EXCEPT !.resumes = Tail(@)]
    IN  IF call.method = "WORKER_CREATE_WEBRTCSERVER"
        THEN createWebRtcServerResolved(s1, call.rid, listenerCloses)
        ELSE createRouterResolved(s1, call.rid, listenerCloses)

\* The '@close' listeners the creation calls register.
\* Mutant: the listener closes the Worker as well.
onWebRtcServerCloseClosesWorker(s, webRtcServerId) ==
    close([s EXCEPT !.webRtcServers = @ \ {webRtcServerId}])

onWebRtcServerClose(s, webRtcServerId) ==
    [s EXCEPT !.webRtcServers = @ \ {webRtcServerId}]

\* Mutant: the listener leaves the router in the registry.
onRouterCloseKeepsRouter(s, routerId) ==
    s

onRouterClose(s, routerId) ==
    [s EXCEPT !.routers = @ \ {routerId}]

\* Router.close() / WebRtcServer.close(): the self-initiated close.  It tears
\* the resource down unless it is closed already, tells the process, and
\* emits '@close'.
resourceClose(s, rid) ==
    LET r == s.resources[rid]
    IN  IF r.kind = "none" \/ r.closed
        THEN s
        ELSE LET s1 == [s EXCEPT !.resources[rid].closed = TRUE,
                                 !.resources[rid].teardowns = @ + 1]
                 method == IF r.kind = "router"
                           THEN "WORKER_CLOSE_ROUTER" ELSE "WORKER_WEBRTCSERVER_CLOSE"
                 s2 == IF s1.channelClosed THEN s1 ELSE channelRequest(s1, method, rid)
             IN  IF r.kind = "router"
                 THEN onRouterClose(s2, rid)
                 ELSE onWebRtcServerClose(s2, rid)

\* ------------------------------------------- the constructor: spawnArgs
\* A JavaScript value as the constructor tells values apart: by typeof, by
\* Array.isArray, by truthiness of a string and by Number.isNaN.
Value(type, str, num, nan, items) ==
    [type |-> type, str |-> str, num |-> num, nan |-> nan, items |-> items]

Undefined == Value("undefined", "", 0, FALSE, <<>>)
Str(str) == Value("string", str, 0, FALSE, <<>>)
Num(num) == Value("number", "", num, FALSE, <<>>)
NaN == Value("number", "", 0, TRUE, <<>>)
Arr(items) == Value("array", "", 0, FALSE, items)

\* The settings the constructor is tried with: absent, of the right type, of
\* the right type and empty or NaN, of a wrong type.
WorkerSettings ==
    [logLevel : {Undefined, Str("warn"), Str(""), Num(1)},
     logTags : {Undefined, Arr(<<>>), Arr(<<Str("ice")>>), Arr(<<Str("ice"), Str("dtls")>>),
                Arr(<<Str(""), Num(1), Str("rtp")>>), Str("ice")},
     rtcMinPort : {Undefined, Num(10000), NaN, Str("10000")},
     rtcMaxPort : {Undefined, Num(10010), NaN, Str("10010")},
     dtlsCertificateFile : {Undefined, Str("cert.pem"), Str("")},
     dtlsPrivateKeyFile : {Undefined, Str("key.pem"), Num(1)},
     libwebrtcFieldTrials : {Undefined, Str("WebRTC-Bwe/Enabled/")}]

NoSettings ==
    [logLevel |-> Undefined, logTags |-> Undefined, rtcMinPort |-> Undefined,
     rtcMaxPort |-> Undefined, dtlsCertificateFile |-> Undefined,
     dtlsPrivateKeyFile |-> Undefined, libwebrtcFieldTrials |-> Undefined]

workerBin == "mediasoup-worker"

\* An element of spawnArgs: `--name=value` as the template literal renders
\* it, or a plain word (a valgrind option, the worker binary).
Arg(name, value) == [name |-> name, text |-> "--" \o name \o "=" \o value]
Word(text) == [name |-> "", text |-> text]

\* MEDIASOUP_USE_VALGRIND === 'true', and MEDIASOUP_VALGRIND_OPTIONS split at
\* white space (<<>>: unset or empty).
Envs ==
    [useValgrind : BOOLEAN, valgrindOptions : {<<>>, <<Word("--leak-check=full")>>}]
NoValgrind == [useValgrind |-> FALSE, valgrindOptions |-> <<>>]

valgrindArgs(e) ==
    IF e.useValgrind THEN e.valgrindOptions \o <<Word(workerBin)>> ELSE <<>>

\* if (typeof x === 'string' && x) spawnArgs.push(`--name=${x}`)
stringArg(name, v) ==
    IF v.type = "string" /\ v.str # "" THEN <<Arg(name, v.str)>> ELSE <<>>

\* Mutant: a port that is not given is set to a default.
numberArgDefaulted(name, v) ==
    IF v.type = "number" /\ ~v.nan
    THEN <<Arg(name, ToString(v.num))>>
    ELSE <<Arg(name, ToString(0))>>

\* if (typeof x === 'number' && !Number.isNaN(x)) spawnArgs.push(`--name=${x}`)
numberArg(name, v) ==
    IF v.type = "number" /\ ~v.nan THEN <<Arg(name, ToString(v.num))>> ELSE <<>>

\* for (const logTag of Array.isArray(logTags) ? logTags : []) ...
RECURSIVE logTagArgs(_)
logTagArgs(logTags) ==
    IF logTags = <<>>
    THEN <<>>
    ELSE stringArg("logTag", Head(logTags)) \o logTagArgs(Tail(logTags))

buildSpawnArgs(st, e) ==
    valgrindArgs(e)
        \o stringArg("logLevel", st.logLevel)
        \o logTagArgs(IF st.logTags.type = "array" THEN st.logTags.items ELSE <<>>)
        \o numberArg("rtcMinPort", st.rtcMinPort)
        \o numberArg("rtcMaxPort", st.rtcMaxPort)
        \o stringArg("dtlsCertificateFile", st.dtlsCertificateFile)
        \o stringArg("dtlsPrivateKeyFile", st.dtlsPrivateKeyFile)
        \o stringArg("libwebrtcFieldTrials", st.libwebrtcFieldTrials)

\* ---------------------------------------------------------- the machine
\* The operating system's process: running, or ended with the (code, signal)
\* of its 'exit' event.  `beforeRunning`: the readiness notification had not
\* been received then; `workerWasClosed`: the Worker was closed already.
ProcessRunning ==
    [exited |-> FALSE, code |-> NullCode, signal |-> "null",
     beforeRunning |-> FALSE, workerWasClosed |-> FALSE]

ProcessExited(e, running, wasClosed) ==
    [exited |-> TRUE, code |-> e.code, signal |-> e.signal,
     beforeRunning |-> ~running, workerWasClosed |-> wasClosed]

\* The fields as the constructor leaves them, but for the child process.
InitFields ==
    /\ spawnDone = FALSE
    /\ closed = FALSE
    /\ died = FALSE
    /\ webRtcServers = {}
    /\ routers = {}
    /\ channelClosed = FALSE
    /\ sents = {}
    /\ nextId = 1
    /\ requests = [id \in ReqIds |-> NoRequest]
    /\ resumes = <<>>
    /\ resources = [r \in ResIds |-> NoResource]
    /\ nextUuid = 1
    /\ proc = ProcessRunning
    /\ runningSeen = FALSE
    /\ kills = 0
    /\ emitted = [ev \in AllEvents |-> 0]
    /\ seen = {}
    /\ closeLog = {}

\* A Worker constructed without settings.
Init ==
    /\ settings = NoSettings
    /\ env = NoValgrind
    /\ spawnArgs = buildSpawnArgs(NoSettings, NoValgrind)
    /\ spawned = TRUE
    /\ pid \in Pids
    /\ child = TRUE
    /\ listeners = TRUE
    /\ InitFields

\* The constructor is entered with any settings in any environment.
InitConstructor ==
    /\ settings \in WorkerSettings
    /\ env \in Envs
    /\ spawnArgs = <<>>
    /\ spawned = FALSE
    /\ pid = UndefinedPid
    /\ child = FALSE
    /\ listeners = FALSE
    /\ InitFields

\* The constructor builds spawnArgs, spawns the child with them, takes its
\* pid and attaches its listeners.
Construct ==
    /\ ~spawned
    /\ spawnArgs' = buildSpawnArgs(settings, env)
    /\ spawned' = TRUE
    /\ \E p \in Pids :
          Assign([State EXCEPT !.pid = p, !.child = TRUE, !.listeners = TRUE])
    /\ UNCHANGED <<settings, env>>

NextConstructor == Construct

SpecConstructor == InitConstructor /\ [][NextConstructor]_vars

\* No promise job is queued: the event loop hands out the next event, timer
\* or application callback only then.
Idle == resumes = <<>>

\* The readiness notification reaches the once-listener.  A notification
\* that was read before the channel was closed may still be handed to its
\* listener afterwards, so the step does not ask for an open channel.  Only
\* a process that was started sends it.
Running ==
    /\ Idle
    /\ pid # UndefinedPid
    /\ ~runningSeen
    /\ Becomes(onRunning([State EXCEPT !.runningSeen = TRUE]))

\* The process ends; its 'exit' event runs the handler if it is still attached.
ProcessExit ==
    /\ Idle
    /\ pid # UndefinedPid
    /\ ~proc.exited
    /\ \E e \in ExitEvents, listenerCloses \in BOOLEAN :
          LET s == [State EXCEPT !.proc = ProcessExited(e, runningSeen, closed)]
          IN  IF listeners
              THEN Becomes(onExit(s, e.code, e.signal, listenerCloses))
              ELSE /\ ~listenerCloses
                   /\ Becomes(s)

\* The child process handle emits 'error', any number of times and before or
\* after 'exit' (child_process documents that 'exit' may or may not follow an
\* 'error'); after close() the handler left is the inert one.
ProcessError ==
    /\ Idle
    /\ \E listenerCloses \in BOOLEAN :
          IF listeners
          THEN Becomes(onError(State, listenerCloses))
          ELSE /\ ~listenerCloses
               /\ UNCHANGED vars

Close ==
    /\ Idle
    /\ Becomes(closeCall(State, "application"))

CanSend == channelClosed \/ nextId <= MaxRequests
CanGenerate == nextUuid <= MaxResources

Dump ==
    /\ Idle
    /\ CanSend
    /\ Becomes(dump(State).state)

GetResourceUsage ==
    /\ Idle
    /\ CanSend
    /\ Becomes(getResourceUsage(State).state)

UpdateSettings ==
    /\ Idle
    /\ CanSend
    /\ Becomes(updateSettings(State).state)

CreateWebRtcServer ==
    /\ Idle
    /\ CanSend
    /\ CanGenerate
    /\ \E appData \in AppDatas : Becomes(createWebRtcServer(State, appData).state)

CreateRouter ==
    /\ Idle
    /\ CanSend
    /\ CanGenerate
    /\ \E appData \in AppDatas, capabilitiesOk \in BOOLEAN :
          Becomes(createRouter(State, appData, capabilitiesOk).state)

\* The process answers a request it was sent, in any order, accepting or
\* rejecting it.  One chunk read from the process may carry several
\* responses: the channel handles them in one callback, so a response may be
\* handled while calls resolved before it still wait to run on.  Only a
\* process that was started answers.
Response ==
    \E id \in ReqIds, accepted \in BOOLEAN :
        /\ pid # UndefinedPid
        /\ id < nextId
        /\ Becomes(onResponse(State, id, accepted))

\* The promise job of the creation call resolved first.
Resume ==
    /\ ~Idle
    /\ \E listenerCloses \in BOOLEAN : Becomes(resume(State, listenerCloses))

ResourceClose ==
    \E rid \in ResIds :
        /\ Idle
        /\ resources[rid].kind # "none"
        /\ channelClosed \/ resources[rid].closed \/ nextId <= MaxRequests
        /\ Becomes(resourceClose(State, rid))

Next ==
    \/ Running
    \/ ProcessExit
    \/ ProcessError
    \/ Close
    \/ Dump
    \/ GetResourceUsage
    \/ UpdateSettings
    \/ CreateWebRtcServer
    \/ CreateRouter
    \/ Response
    \/ Resume
    \/ ResourceClose

Spec == Init /\ [][Next]_vars

\* The process has neither delivered its readiness notification nor ended,
\* and now does the one or the other, or its handle emits 'error'.
ProcessSpeaks ==
    /\ ~runningSeen
    /\ ~proc.exited
    /\ (Running \/ ProcessExit \/ ProcessError)

\* The event loop runs every queued promise job, and a spawned process does
\* not stay silent for ever: it becomes ready, or it ends, or spawning it
\* fails.  Nothing obliges the application to call anything.
FairSpec == Spec /\ WF_vars(Resume) /\ WF_vars(ProcessSpeaks)

\* ================================================================ claims
Registered == routers \cup webRtcServers

\* C1: in every reachable state of a Worker, died implies closed.
C1_DiedImpliesClosed == died => closed

\* A Worker that died: the 'exit' or 'error' handler ran workerDied().
C1_Witness == died /\ closed /\ emitted["died"] = 1

\* C2: a close() call on a Worker that is closed already (by close(), by a
\* startup failure or by death; made by the application or from inside a
\* 'died' listener) leaves every field as it was, and the termination signal
\* is sent at most once.
C2_CloseIdempotent ==
    /\ \A c \in closeLog : c.wasClosed => c.nothingDone
    /\ kills <= 1

\* close() was called on a closed Worker by the application and, in the same
\* run, from inside a 'died' listener.
C2_Witness ==
    /\ \E c \in closeLog : c.wasClosed /\ c.from = "application"
    /\ \E c \in closeLog : c.wasClosed /\ c.from = "died listener"

\* C3: the step that closes a Worker (close() or death) hands workerClosed()
\* to every router and WebRtcServer registered before it, each of them reports
\* itself closed after it, and both registries are empty after it.
C3_Cascade ==
    [][(~closed /\ closed') =>
          /\ routers' = {}
          /\ webRtcServers' = {}
          /\ \A r \in Registered :
                /\ resources'[r].closed
                /\ resources'[r].workerClosedCalls = resources[r].workerClosedCalls + 1]_vars

\* A closed Worker whose cascade reached a router and a WebRtcServer.
C3_Witness ==
    /\ closed
    /\ \E r \in ResIds : resources[r].kind = "router" /\ resources[r].workerClosedCalls = 1
    /\ \E r \in ResIds : resources[r].kind = "webRtcServer" /\ resources[r].workerClosedCalls = 1

\* Every public request as it would run in state s, over all its inputs.
Queries(s) == {dump(s), getResourceUsage(s), updateSettings(s)}

Creations(s, appDatas, capabilities) ==
    {createWebRtcServer(s, a) : a \in appDatas}
        \cup {createRouter(s, a, ok) : a \in appDatas, ok \in capabilities}

\* A creation call drew an identifier and wrote no request for it: it ran
\* into the closed channel.
DrawnUnsent == {r \in ResIds : r < nextUuid /\ \A id \in ReqIds : requests[id].rid # r}

\* C4 as stated: every public request made on a closed Worker throws the
\* 'closed' error, writes nothing to the process, registers nothing and emits
\* nothing.
C4_Original ==
    closed =>
        \A c \in Queries(State) \cup Creations(State, AppDatas, BOOLEAN) :
            c.result = ChannelClosedError /\ Untouched(State, c.state)

\* C4, amended: every public request made on a closed Worker throws at once,
\* writes nothing to the process, registers nothing and emits nothing; the
\* error is the 'closed' error, unless a creation call's own validation
\* (appData, capability negotiation) has thrown first.
C4_ClosedRejectsRequests ==
    closed =>
        /\ \A c \in Queries(State) \cup Creations(State, AppDatas, BOOLEAN) :
              /\ c.result \in {ChannelClosedError, AppDataTypeError, CapabilitiesError}
              /\ Untouched(State, c.state)
        /\ \A c \in Queries(State) \cup Creations(State, {"undefined", "object"}, {TRUE}) :
              c.result = ChannelClosedError

\* A closed Worker on which a creation call was made and ran into the closed
\* channel.
C4_Witness == closed /\ DrawnUnsent # {}

\* The construction outcome that was signalled.
Succeeded == emitted["@success"] = 1 /\ emitted["@failure"] = 0

FailedWith(detail) ==
    /\ emitted["@success"] = 0
    /\ emitted["@failure"] = 1
    /\ \E e \in seen : e.ev = "@failure"
    /\ \A e \in seen : e.ev = "@failure" => e.detail = detail

ExitedBeforeRunning == proc.exited /\ proc.beforeRunning

\* C5 as stated: whenever the process has exited with code 42 before the
\* readiness notification was received, the outcome is the 'wrong settings'
\* failure and the Worker is closed and not died, now and in every later
\* state.
C5_Original ==
    (ExitedBeforeRunning /\ proc.code = WrongSettingsCode) =>
        (FailedWith(WrongSettingsError) /\ closed /\ ~died)

\* C5, amended: whenever the process has exited with code 42 before the
\* readiness notification was received and while the Worker was not closed
\* (no 'error' event and no close() came first), the outcome is the 'wrong
\* settings' failure and the Worker is closed and not died, now and in every
\* later state.
C5_WrongSettings ==
    (ExitedBeforeRunning /\ proc.code = WrongSettingsCode /\ ~proc.workerWasClosed) =>
        (FailedWith(WrongSettingsError) /\ closed /\ ~died)

\* The process left with code 42 during startup; the readiness notification
\* and a close() came afterwards.
C5_Witness ==
    /\ ExitedBeforeRunning /\ proc.code = WrongSettingsCode /\ ~proc.workerWasClosed
    /\ runningSeen
    /\ \E c \in closeLog : c.from = "application"

\* C6 as stated: whenever the process has exited with another code than 42,
\* or by a signal, before the readiness notification was received, the
\* outcome is the failure that carries that code and signal, no 'died' event
\* was raised, and the Worker is closed and not died.
C6_Original ==
    (ExitedBeforeRunning /\ proc.code # WrongSettingsCode) =>
        /\ FailedWith(CodeSignalError(proc.code, proc.signal))
        /\ emitted["died"] = 0
        /\ closed /\ ~died

\* C6, amended: the same, for an exit that found the Worker not closed (no
\* 'error' event and no close() came first).
C6_UnexpectedFailure ==
    (ExitedBeforeRunning /\ proc.code # WrongSettingsCode /\ ~proc.workerWasClosed) =>
        /\ FailedWith(CodeSignalError(proc.code, proc.signal))
        /\ emitted["died"] = 0
        /\ closed /\ ~died

\* The process was ended by a signal during startup; an 'error' event or the
\* readiness notification came afterwards.
C6_Witness ==
    /\ ExitedBeforeRunning /\ proc.code = NullCode /\ ~proc.workerWasClosed
    /\ proc.signal \in Signals
    /\ runningSeen

\* C7: on a Worker that received readiness and is not closed, the step of an
\* 'exit' or 'error' event is a death: the Worker becomes closed and died, the
\* channel is closed and holds no pending request, every registered resource
\* is handed workerClosed() and both registries are emptied, one 'died' event
\* carrying the failure detail is raised, and no startup failure is reported.
DeathHandled(detail) ==
    /\ closed' /\ died'
    /\ channelClosed' /\ sents' = {}
    /\ routers' = {} /\ webRtcServers' = {}
    /\ \A r \in Registered :
          /\ resources'[r].closed
          /\ resources'[r].workerClosedCalls = resources[r].workerClosedCalls + 1
    /\ emitted'["died"] = emitted["died"] + 1
    /\ \E e \in seen' \ seen : e.ev = "died" /\ e.detail = detail
    /\ emitted'["@failure"] = emitted["@failure"]

C7_DeathAfterReadiness ==
    [][(runningSeen /\ ~closed) =>
          /\ (~proc.exited /\ proc'.exited) =>
                 DeathHandled(CodeSignalError(proc'.code, proc'.signal))
          /\ ProcessError => DeathHandled(ChildProcessError)]_vars

\* A Worker that was running with a registered resource and a pending request
\* died of an 'error' event, and its process exited afterwards.
C7_Witness ==
    /\ died
    /\ \E e \in seen : e.ev = "@success" /\ ~e.closed
    /\ \E e \in seen : e.ev = "died" /\ e.detail = ChildProcessError
    /\ \E r \in ResIds : resources[r].workerClosedCalls = 1
    /\ \E id \in ReqIds : requests[id].state = "closed"
    /\ proc.exited

\* C8: the spawn outcome is signalled at most once, and a Worker whose
\* construction failed never dies: no 'died' event, died never set.
C8_OutcomeOnce ==
    /\ emitted["@success"] + emitted["@failure"] <= 1
    /\ emitted["@failure"] = 1 => (emitted["died"] = 0 /\ ~died)

\* A startup failure came first, and the readiness notification and the
\* process exit arrived after it.
C8_Witness ==
    /\ emitted["@failure"] = 1
    /\ \E e \in seen : e.ev = "@failure" /\ e.detail = ChildProcessError
    /\ runningSeen
    /\ proc.exited

Sent == {id \in ReqIds : id < nextId}

\* C9: every request written to the channel is resolved at most once, by the
\* response that carries its identifier or by the channel's close; it is
\* pending exactly as long as it is unresolved; and once the Worker is closed
\* (close() or death) the channel is closed, the pending table is empty and
\* every request written has been resolved exactly once.
C9_ResolvedOnce ==
    /\ \A id \in Sent :
          /\ requests[id].resolutions <= 1
          /\ id \in sents <=> requests[id].resolutions = 0
          /\ requests[id].state \in {"accepted", "rejected"} => requests[id].by = id
    /\ sents \subseteq Sent
    /\ closed =>
          /\ channelClosed
          /\ sents = {}
          /\ \A id \in Sent : requests[id].resolutions = 1

\* Two requests were pending at once and the close of the Worker failed both.
C9_Witness ==
    /\ closed
    /\ Cardinality({id \in Sent : requests[id].state = "closed"}) >= 2

\* C10: once the Worker is closed it stays closed, died never changes and no
\* 'died' event is raised any more.
C10_ClosedTerminal ==
    [][closed => (closed' /\ died' = died /\ emitted'["died"] = emitted["died"])]_vars

\* A running Worker was closed by close(); its process exited afterwards and
\* no death was handled.
C10_Witness ==
    /\ closed /\ ~died /\ kills = 1
    /\ \E e \in seen : e.ev = "@success" /\ ~e.closed
    /\ \E c \in closeLog : c.from = "application" /\ ~c.wasClosed
    /\ proc.exited /\ proc.workerWasClosed
    /\ emitted["died"] = 0

\* C11: the observer's 'close' event has been emitted once if the Worker is
\* closed (by close(), by a startup failure or by death) and never if it is
\* not, and the 'died' event is emitted at most once, also when an 'error'
\* and an 'exit' event both arrive for the process.
C11_EventsOnce ==
    /\ emitted["close"] = (IF closed THEN 1 ELSE 0)
    /\ emitted["died"] <= 1

\* A Worker died of an 'error' event; its process exited afterwards, and the
\* application called close() on it.
C11_Witness ==
    /\ died /\ emitted["died"] = 1 /\ emitted["close"] = 1
    /\ \E e \in seen : e.ev = "died" /\ e.detail = ChildProcessError
    /\ proc.exited /\ proc.workerWasClosed
    /\ \E c \in closeLog : c.from = "application" /\ c.wasClosed

\* C12: in every reachable state a closed Worker has two empty registries, and
\* no creation event is emitted on a closed Worker: a creation call whose
\* request was in flight, or answered with its call still waiting to run on,
\* when close() or the death began registers nothing and emits nothing
\* afterwards.
C12_ClosedRegistriesEmpty ==
    /\ closed => (routers = {} /\ webRtcServers = {})
    /\ \A e \in seen : e.ev \in {"newrouter", "newwebrtcserver"} => ~e.closed

\* C13: whenever the success outcome is signalled, the Worker has its process
\* identifier assigned and is neither closed nor died at that moment: success
\* is never signalled for a Worker that is closed already.
C13_SuccessOnOpenWorker ==
    \A e \in seen :
        e.ev = "@success" => (e.pid # UndefinedPid /\ ~e.closed /\ ~e.died)

\* C14: a creation call given appData that is a primitive, truthy or falsy,
\* throws the type error and does nothing else: it draws no identifier, writes
\* no request, registers nothing and emits nothing.
C14_PrimitiveAppDataRejected ==
    (CanSend /\ CanGenerate) =>
        \A c \in Creations(State, {"truthyPrimitive", "falsyPrimitive"}, BOOLEAN) :
            /\ c.result = AppDataTypeError
            /\ c.state.nextUuid = nextUuid
            /\ Untouched(State, c.state)

\* C15: createRouter() generates the capabilities before it draws the router
\* identifier and builds the request; when that throws, the call throws with
\* it and has drawn no identifier, written no request, left the registries
\* as they were and emitted nothing.
C15_NegotiationFailureAborts ==
    (CanSend /\ CanGenerate) =>
        /\ \A a \in AppDatas :
              LET c == createRouter(State, a, FALSE)
              IN  /\ c.result \in {CapabilitiesError, AppDataTypeError}
                  /\ c.state.nextUuid = nextUuid
                  /\ Untouched(State, c.state)
        /\ \A a \in {"undefined", "object"} :
              createRouter(State, a, FALSE).result = CapabilitiesError

\* An open Worker with a registered router, on which createRouter() is sent
\* when the capabilities are generated and throws when they are not.
C15_Witness ==
    /\ ~closed /\ routers # {}
    /\ CanSend /\ CanGenerate
    /\ createRouter(State, "object", TRUE).result = "sent"
    /\ createRouter(State, "object", FALSE).result = CapabilitiesError

\* The arguments of spawnArgs that carry the given name, in their order.
SettingArgs(name) == SelectSeq(spawnArgs, LAMBDA a : a.name = name)

StringSettings == {"logLevel", "dtlsCertificateFile", "dtlsPrivateKeyFile", "libwebrtcFieldTrials"}
NumberSettings == {"rtcMinPort", "rtcMaxPort"}
RecognizedSettings == StringSettings \cup NumberSettings \cup {"logTags"}

\* The setting is present with a value of the type WorkerSettings gives it.
RightType(k) ==
    settings[k].type = (CASE k \in StringSettings -> "string"
                          [] k \in NumberSettings -> "number"
                          [] OTHER -> "array")

\* The name of the arguments a setting is translated to.
ArgName(k) == IF k = "logTags" THEN "logTag" ELSE k

\* The log tags that are non-empty strings, in their order.
GivenLogTags ==
    IF settings.logTags.type = "array"
    THEN SelectSeq(settings.logTags.items, LAMBDA tag : tag.type = "string" /\ tag.str # "")
    ELSE <<>>

\* C16 as stated: every recognized setting that is present with a value of
\* the right type is translated to exactly one argument, and every setting
\* that is absent or of a wrong type to none.
C16_Original ==
    spawned =>
        \A k \in RecognizedSettings :
            Len(SettingArgs(ArgName(k))) = (IF RightType(k) THEN 1 ELSE 0)

\* C16, amended: a string setting that is a non-empty string and a port that
\* is a number other than NaN are translated to exactly one `--name=value`
\* argument; logTags, when it is an array, to one `--logTag=tag` argument for
\* each of its elements that is a non-empty string, in their order; a setting
\* that is absent, of a wrong type, the empty string or NaN to none, and
\* nothing else is added but the valgrind words in front.  rtcMinPort=10000
\* and rtcMaxPort=10010 give --rtcMinPort=10000 and --rtcMaxPort=10010 and no
\* other port argument.
C16_SettingsToArguments ==
    spawned =>
        /\ \A k \in StringSettings :
              /\ Len(SettingArgs(k)) =
                     (IF settings[k].type = "string" /\ settings[k].str # "" THEN 1 ELSE 0)
              /\ \A i \in 1..Len(SettingArgs(k)) :
                     SettingArgs(k)[i].text = "--" \o k \o "=" \o settings[k].str
        /\ \A k \in NumberSettings :
              /\ Len(SettingArgs(k)) =
                     (IF settings[k].type = "number" /\ ~settings[k].nan THEN 1 ELSE 0)
              /\ \A i \in 1..Len(SettingArgs(k)) :
                     SettingArgs(k)[i].text = "--" \o k \o "=" \o ToString(settings[k].num)
        /\ Len(SettingArgs("logTag")) = Len(GivenLogTags)
        /\ \A i \in 1..Len(GivenLogTags) :
              SettingArgs("logTag")[i].text = "--logTag=" \o GivenLogTags[i].str
        /\ \A i \in 1..Len(spawnArgs) :
              \/ spawnArgs[i].name \in StringSettings \cup NumberSettings \cup {"logTag"}
              \/ env.useValgrind /\ i <= Len(env.valgrindOptions) + 1
        /\ (settings.rtcMinPort = Num(10000) /\ settings.rtcMaxPort = Num(10010)) =>
              SelectSeq(spawnArgs, LAMBDA a : a.name \in NumberSettings)
                  = <<Arg("rtcMinPort", "10000"), Arg("rtcMaxPort", "10010")>>

\* The constructor was given rtcMinPort=10000 and rtcMaxPort=10010, two log
\* tags, an empty certificate path and a key path of a wrong type.
C16_Witness ==
    /\ spawned
    /\ settings.rtcMinPort = Num(10000) /\ settings.rtcMaxPort = Num(10010)
    /\ Len(SettingArgs("logTag")) = 2
    /\ settings.dtlsCertificateFile = Str("") /\ SettingArgs("dtlsCertificateFile") = <<>>
    /\ settings.dtlsPrivateKeyFile = Num(1) /\ SettingArgs("dtlsPrivateKeyFile") = <<>>
    /\ env.useValgrind

\* C17: a listener of 'died', of the failure outcome or of the observer's
\* 'close' runs when the Worker is closed, the channel is closed with no
\* request pending, and both registries are empty: the channel is closed and
\* the resources are cascade-closed before the event is emitted.
C17_ClosedBeforeEvent ==
    \A e \in seen :
        e.ev \in {"died", "@failure", "close"} =>
            (e.closed /\ e.registriesEmpty /\ e.noPending)

\* A Worker with a registered resource and a pending request died: 'died' and
\* 'close' were emitted after the cascade and the channel's close.
C17_Witness ==
    /\ \E e \in seen : e.ev = "died"
    /\ \E e \in seen : e.ev = "close"
    /\ \E r \in ResIds : resources[r].workerClosedCalls = 1
    /\ \E id \in ReqIds : requests[id].state = "closed"

\* A resource that closed itself: it is closed and no owner-initiated close
\* has reached it.
SelfClosed(r) == resources[r].closed /\ resources[r].workerClosedCalls = 0

\* C18: every resource is torn down at most once.  A resource that closed
\* itself is in no registry and no step hands it an owner-initiated close;
\* no step tears a closed resource down again, be it a self-close after the
\* owner's cascade or the cascade after a self-close.
C18_TeardownOnce ==
    [][\A r \in ResIds :
          /\ resources'[r].teardowns <= 1
          /\ SelfClosed(r) => (r \notin Registered /\ resources'[r].workerClosedCalls = 0)
          /\ resources[r].closed => resources'[r].teardowns = resources[r].teardowns]_vars

\* A resource closed itself while the channel was open (the request of its
\* creation and the request of its close were both written), and the Worker
\* was closed afterwards.
C18_Witness ==
    /\ closed
    /\ \E r \in ResIds :
          /\ SelfClosed(r) /\ resources[r].teardowns = 1
          /\ Cardinality({id \in Sent : requests[id].rid = r}) = 2

\* The step is the self-initiated close of the registered resource rid: the
\* resource becomes closed and no owner-initiated close was handed to it.
SelfCloses(rid) ==
    /\ rid \in Registered
    /\ ~resources[rid].closed /\ resources'[rid].closed
    /\ resources'[rid].workerClosedCalls = resources[rid].workerClosedCalls

CreationRequest(id) ==
    /\ id \in Sent
    /\ requests[id].rid # 0
    /\ \A id2 \in 1..(id - 1) : requests[id2].rid # requests[id].rid

\* The call awaiting request id was accepted and has run on.
Completed(id) ==
    /\ requests[id].state = "accepted"
    /\ \A i \in 1..Len(resumes) : resumes[i].rid # requests[id].rid

CreationEvents(rid) ==
    {e \in seen : e.ev \in {"newrouter", "newwebrtcserver"} /\ e.rid = rid}

Created(kind) == {r \in ResIds : resources[r].kind = kind}

\* C20: a creation call whose request was accepted has, once it ran on,
\* constructed one resource under its own identifier and emitted one creation
\* event of its kind, with the resource in the registry at that moment; a
\* resource is only ever in the registry of its kind; as many creation events
\* were emitted as resources exist, so that no identifier was used twice.  A
\* creation call whose request was rejected (or failed, or is not answered
\* yet) has constructed and registered nothing and emitted no event.
C20_CreationRegistersOnce ==
    /\ \A id \in ReqIds :
          CreationRequest(id) =>
              LET rid == requests[id].rid
              IN  IF Completed(id)
                  THEN /\ resources[rid].kind # "none"
                       /\ Cardinality(CreationEvents(rid)) = 1
                       /\ \A e \in CreationEvents(rid) :
                             /\ e.registered
                             /\ e.ev = (IF resources[rid].kind = "router"
                                        THEN "newrouter" ELSE "newwebrtcserver")
                  ELSE /\ resources[rid].kind = "none"
                       /\ rid \notin Registered
                       /\ CreationEvents(rid) = {}
    /\ routers \subseteq Created("router")
    /\ webRtcServers \subseteq Created("webRtcServer")
    /\ emitted["newrouter"] = Cardinality(Created("router"))
    /\ emitted["newwebrtcserver"] = Cardinality(Created("webRtcServer"))

\* On a running Worker one creation call was accepted and its resource is
\* registered, and another was rejected.
C20_Witness ==
    /\ ~closed
    /\ \E e \in seen : e.ev = "@success"
    /\ \E id \in ReqIds :
          CreationRequest(id) /\ Completed(id) /\ requests[id].rid \in Registered
    /\ \E id \in ReqIds : CreationRequest(id) /\ requests[id].state = "rejected"

\* The construction outcome was signalled, once.
OutcomeSignalled == emitted["@success"] + emitted["@failure"] = 1

\* C21: when the process does not stay silent, every constructed Worker
\* eventually signals one construction outcome, success or failure, and it
\* stays the only one.
C21_OutcomeEventually == <>[]OutcomeSignalled

\* close() was called on the open Worker by the application, directly or from
\* a listener of a creation event.
ApplicationClosed ==
    \E c \in closeLog :
        /\ c.from \in {"application", "newrouter listener", "newwebrtcserver listener"}
        /\ ~c.wasClosed

\* What does hold under FairSpec: the outcome is signalled unless the
\* application has closed the Worker before.
C21_UnlessClosedFirst == <>(OutcomeSignalled \/ ApplicationClosed)

\* The OS process was started, has not been observed to exit and has never
\* been sent the termination signal.
LeftRunning ==
    /\ pid # UndefinedPid
    /\ ~proc.exited
    /\ kills = 0

\* C22: whenever the Worker is closed, by close(), by a startup failure or
\* by a death, its process handle is released and its process has exited or
\* has been sent the termination signal.
C22_ClosedProcessEnded == closed => (~child /\ ~LeftRunning)

\* What does hold of a closed Worker: the handle is released.
C22_HandleReleased == closed => ~child

====
